---- MODULE Spec2Model ----
(***************************************************************************)
(* A model of lang_encode (src/src/main.rs): a static Huffman coder        *)
(* (HuffmanTree::build, build_codes, encode, decode), the bit packing      *)
(* helpers bytes_to_bits / bits_to_bytes and the round trip main performs  *)
(* on a ciphertext.                                                        *)
(*                                                                         *)
(* Symbols are u8 values, bits are bool (BOOLEAN), a frequency table is a  *)
(* function from its key set to usize weights.  A HuffmanNode is a record: *)
(* Leaf {byte} is [byte |-> b], Internal {left, right} is                  *)
(* [left |-> l, right |-> r].                                              *)
(*                                                                         *)
(* std's BinaryHeap promises only that pop returns a greatest element of   *)
(* the Ord of HeapNode; which of several equal elements it returns depends *)
(* on the order of the pushes, and that order is the iteration order of a  *)
(* HashMap, which is unspecified and randomised per process.  The heap is  *)
(* therefore a set of entries and pop removes any greatest entry.          *)
(***************************************************************************)
EXTENDS Integers, Sequences, FiniteSets, TLC

\* ------------------------------------------------------------- bounds
MaxSyms == 3        \* small tables have 1..MaxSyms symbols
MaxFreq == 2        \* weights of the small tables are 0..MaxFreq
MaxData == 3        \* longest symbol sequence handed to encode
MaxBits == 4        \* longest bit sequence handed to decode
MaxBytes == 1       \* longest byte buffer handed to the bit packing alone
MaxBuf == 2         \* longest buffer of sample bytes main round-trips
MaxCodeLen == 3     \* longest code of the code assignments build is compared with

\* ------------------------------------------------------------- inputs
FirstSym == 97      \* b'a'

Alphabet == FirstSym .. (FirstSym + MaxSyms - 1)

\* Every table over the first n symbols of the alphabet, 1 <= n <= MaxSyms.
SmallTables ==
    UNION { [FirstSym .. (FirstSym + n - 1) -> 0 .. MaxFreq] : n \in 1 .. MaxSyms }

\* The small tables whose symbols all occur (no weight is 0): the tables the
\* trees that decode walks are built from.
OccurringTables == { t \in SmallTables : \A s \in DOMAIN t : t[s] >= 1 }

\* All sequences over S of length at most n.
SeqsUpTo(S, n) == UNION { [1 .. k -> S] : k \in 0 .. n }

Byte == 0 .. 255

\* Bytes of several bit patterns, for the buffers longer than one byte.
ByteSamples == {0, 1, 90, 128, 165, 255}

\* The ciphertexts main is run on: every buffer of at most one byte and every
\* buffer of at most MaxBuf sample bytes.
MainBuffers == SeqsUpTo(Byte, 1) \cup SeqsUpTo(ByteSamples, MaxBuf)

\* ------------------------------------------------------------- HuffmanNode
Leaf(b) == [byte |-> b]

Internal(l, r) == [left |-> l, right |-> r]

IsLeaf(n) == "byte" \in DOMAIN n

\* The value of root before build has returned.
NoNode == [none |-> TRUE]

\* ------------------------------------------------------------- HeapNode
HeapNode(f, n) == [freq |-> f, node |-> n]

\* A max-heap: cmp compares self.freq with other.freq.
HeapNodeLe_unreversed(a, b) == a.freq <= b.freq

\* a <= b in the Ord of HeapNode: cmp compares other.freq with self.freq.
HeapNodeLe(a, b) == b.freq <= a.freq

\* The entries BinaryHeap::pop may return: the greatest ones.
Greatest(h) == { e \in h : \A o \in h : HeapNodeLe(o, e) }

\* ------------------------------------------------------------- build_codes
\* Both children get the bit of the left one.
RECURSIVE build_codes_same_bit(_, _)
build_codes_same_bit(node, prefix) ==
    IF IsLeaf(node)
    THEN (node.byte :> prefix)
    ELSE build_codes_same_bit(node.left, Append(prefix, FALSE))
            @@ build_codes_same_bit(node.right, Append(prefix, FALSE))

RECURSIVE build_codes(_, _)
build_codes(node, prefix) ==
    IF IsLeaf(node)
    THEN (node.byte :> prefix)
    ELSE build_codes(node.left, Append(prefix, FALSE))
            @@ build_codes(node.right, Append(prefix, TRUE))

\* ------------------------------------------------------------- encode
RECURSIVE encode(_, _)
encode(cb, d) ==
    IF d = <<>> THEN <<>>
    ELSE (IF Head(d) \in DOMAIN cb THEN cb[Head(d)] ELSE <<>>)
            \o encode(cb, Tail(d))

\* ------------------------------------------------------------- decode
\* The padding bit is 1 instead of 0.
DecodeIter_pad_one(rt, bts, st) ==
    LET bit  == IF st.i < Len(bts) THEN bts[st.i + 1] ELSE TRUE
        cur1 == IF IsLeaf(st.current) THEN rt
                ELSE IF ~bit THEN st.current.left ELSE st.current.right
    IN  IF IsLeaf(cur1)
        THEN IF st.i >= Len(bts)
             THEN [i |-> st.i, current |-> cur1,
                   result |-> Append(st.result, cur1.byte), done |-> TRUE]
             ELSE [i |-> st.i + 1, current |-> rt,
                   result |-> Append(st.result, cur1.byte), done |-> FALSE]
        ELSE [i |-> st.i + 1, current |-> cur1, result |-> st.result, done |-> FALSE]

\* No padding: past the end of the bits an iteration consumes nothing and the
\* loop goes round without moving.
DecodeIter_no_padding(rt, bts, st) ==
    IF st.i >= Len(bts) THEN st
    ELSE LET bit  == bts[st.i + 1]
             cur1 == IF IsLeaf(st.current) THEN rt
                     ELSE IF ~bit THEN st.current.left ELSE st.current.right
         IN  IF IsLeaf(cur1)
             THEN [i |-> st.i + 1, current |-> rt,
                   result |-> Append(st.result, cur1.byte), done |-> FALSE]
             ELSE [i |-> st.i + 1, current |-> cur1, result |-> st.result,
                   done |-> FALSE]

\* One iteration of the loop of decode; st is the loop's state (i, current,
\* result) and done tells whether the iteration ended in the break.
DecodeIter(rt, bts, st) ==
    LET bit  == IF st.i < Len(bts) THEN bts[st.i + 1] ELSE FALSE
        cur1 == IF IsLeaf(st.current) THEN rt
                ELSE IF ~bit THEN st.current.left ELSE st.current.right
    IN  IF IsLeaf(cur1)
        THEN IF st.i >= Len(bts)
             THEN [i |-> st.i, current |-> cur1,
                   result |-> Append(st.result, cur1.byte), done |-> TRUE]
             ELSE [i |-> st.i + 1, current |-> rt,
                   result |-> Append(st.result, cur1.byte), done |-> FALSE]
        ELSE [i |-> st.i + 1, current |-> cur1, result |-> st.result, done |-> FALSE]

\* The loop's state on entry.
DecodeEntry(rt) == [i |-> 0, current |-> rt, result |-> <<>>, done |-> FALSE]

RECURSIVE DecodeLoop(_, _, _)
DecodeLoop(rt, bts, st) ==
    IF st.done THEN st ELSE DecodeLoop(rt, bts, DecodeIter(rt, bts, st))

decode(rt, bts) == DecodeLoop(rt, bts, DecodeEntry(rt)).result

\* ------------------------------------------------------------- bit packing
Pow2(n) == 2 ^ n

\* (byte >> sh) & 1 == 1
BitOf(byte, sh) == ((byte \div Pow2(sh)) % 2) = 1

\* The bits of a byte come least significant first: for i in 0..8.
RECURSIVE bytes_to_bits_lsb_first(_)
bytes_to_bits_lsb_first(bytes) ==
    IF bytes = <<>> THEN <<>>
    ELSE [k \in 1 .. 8 |-> BitOf(Head(bytes), k - 1)]
            \o bytes_to_bits_lsb_first(Tail(bytes))

RECURSIVE bytes_to_bits(_)
bytes_to_bits(bytes) ==
    IF bytes = <<>> THEN <<>>
    ELSE [k \in 1 .. 8 |-> BitOf(Head(bytes), 8 - k)] \o bytes_to_bits(Tail(bytes))

\* The byte of one chunk: bit k (counted from 0) sets 1 << (7 - k).
RECURSIVE ChunkByte(_, _)
ChunkByte(chunk, k) ==
    IF k >= Len(chunk) THEN 0
    ELSE (IF chunk[k + 1] THEN Pow2(7 - k) ELSE 0) + ChunkByte(chunk, k + 1)

Min(a, b) == IF a <= b THEN a ELSE b

\* The body of bits_to_bytes after its assertion: one byte per chunk of 8.
bits_to_bytes(bts) ==
    [c \in 1 .. ((Len(bts) + 7) \div 8) |->
        ChunkByte(SubSeq(bts, 8 * (c - 1) + 1, Min(8 * c, Len(bts))), 0)]

\* The padding bits are not removed.
Truncate8_missing(bts) == bts

\* bits.truncate(bits.len() / 8 * 8)
Truncate8(bts) == SubSeq(bts, 1, (Len(bts) \div 8) * 8)

\* ------------------------------------------------------------- state
VARIABLES
    freqs,          \* the frequency table handed to build
    heap,           \* build: the BinaryHeap, a set of HeapNode entries
    root,           \* HuffmanTree.root
    codes,          \* HuffmanTree.codes
    prevRoot,       \* root of the previous build of the same table (NoNode: none)
    prevCodes,      \* codes of the previous build of the same table
    data,           \* encode: its argument
    encoded,        \* encode: its return value
    bits,           \* decode: its argument
    i,              \* decode: the bit index
    current,        \* decode: the cursor
    result,         \* decode: the symbols emitted so far, its return value at the end
    ciphertext,     \* main: the byte buffer that is round-tripped
    ciphertext2,    \* main: the byte buffer that comes back
    pc              \* where the program is

vars == << freqs, heap, root, codes, prevRoot, prevCodes, data, encoded,
           bits, i, current, result, ciphertext, ciphertext2, pc >>

buildVars == << heap, root, codes >>
prevVars == << prevRoot, prevCodes >>
encodeVars == << data, encoded >>
decodeVars == << bits, i, current, result >>
mainVars == << ciphertext, ciphertext2 >>

\* Everything but the table and pc, before build is called.
Fresh ==
    /\ heap = {}
    /\ root = NoNode
    /\ codes = <<>>
    /\ prevRoot = NoNode
    /\ prevCodes = <<>>
    /\ data = <<>>
    /\ encoded = <<>>
    /\ bits = <<>>
    /\ i = 0
    /\ current = NoNode
    /\ result = <<>>
    /\ ciphertext = <<>>
    /\ ciphertext2 = <<>>

\* ------------------------------------------------------------- build
\* The for loop of build: one leaf entry per key of the table.
BuildPush ==
    /\ pc = "push"
    /\ heap' = { HeapNode(freqs[b], Leaf(b)) : b \in DOMAIN freqs }
    /\ pc' = "merge"
    /\ UNCHANGED << freqs, root, codes, prevVars, encodeVars, decodeVars, mainVars >>

\* One iteration of the while loop of build: two pops and a push.
BuildMerge ==
    /\ pc = "merge"
    /\ Cardinality(heap) > 1
    /\ \E left \in Greatest(heap) :
         \E right \in Greatest(heap \ {left}) :
            heap' = (heap \ {left, right})
                       \cup { HeapNode(left.freq + right.freq,
                                       Internal(left.node, right.node)) }
    /\ UNCHANGED << freqs, root, codes, prevVars, encodeVars, decodeVars, mainVars, pc >>

\* The end of build: the last pop, build_codes, the HuffmanTree.
BuildFinish ==
    /\ pc = "merge"
    /\ Cardinality(heap) = 1
    /\ \E last \in heap :
         /\ root' = last.node
         /\ codes' = build_codes(last.node, <<>>)
    /\ heap' = {}
    /\ pc' = "built"
    /\ UNCHANGED << freqs, prevVars, encodeVars, decodeVars, mainVars >>

\* build is called again on the same table; the first tree is kept to compare.
Rebuild ==
    /\ pc = "built"
    /\ prevRoot = NoNode
    /\ prevRoot' = root
    /\ prevCodes' = codes
    /\ root' = NoNode
    /\ codes' = <<>>
    /\ pc' = "push"
    /\ UNCHANGED << freqs, heap, encodeVars, decodeVars, mainVars >>

InitBuild ==
    /\ freqs \in SmallTables
    /\ pc = "push"
    /\ Fresh

NextBuild ==
    \/ BuildPush
    \/ BuildMerge
    \/ BuildFinish
    \/ Rebuild

SpecBuild == InitBuild /\ [][NextBuild]_vars

\* ------------------------------------------------------------- helpers of the properties
IsPrefix(p, q) == Len(p) <= Len(q) /\ SubSeq(q, 1, Len(p)) = p

RECURSIVE Leaves(_)
Leaves(n) == IF IsLeaf(n) THEN {n.byte} ELSE Leaves(n.left) \cup Leaves(n.right)

RECURSIVE LeafCount(_)
LeafCount(n) == IF IsLeaf(n) THEN 1 ELSE LeafCount(n.left) + LeafCount(n.right)

RECURSIVE Height(_)
Height(n) ==
    IF IsLeaf(n) THEN 0
    ELSE 1 + (IF Height(n.left) >= Height(n.right) THEN Height(n.left) ELSE Height(n.right))

RECURSIVE SumOver(_, _, _)
\* The sum over s in S of f[s] * len[s].
SumOver(S, f, len) ==
    IF S = {} THEN 0
    ELSE LET s == CHOOSE x \in S : TRUE
         IN  f[s] * len[s] + SumOver(S \ {s}, f, len)

\* The total weighted code length of codebook cb under the weights f.
Cost(cb, f) == SumOver(DOMAIN f, f, [s \in DOMAIN f |-> Len(cb[s])])

PrefixFree(cb) ==
    \A a \in DOMAIN cb : \A b \in DOMAIN cb : a # b => ~IsPrefix(cb[a], cb[b])

\* The code lengths of every prefix-free code assignment, with codes of at most
\* MaxCodeLen bits, to the first n symbols (n = 2, 3, 4).
PrefixFreeLengths ==
    [n \in 2 .. 4 |->
        { [s \in DOMAIN cb |-> Len(cb[s])] :
            cb \in { c \in [FirstSym .. (FirstSym + n - 1) -> SeqsUpTo(BOOLEAN, MaxCodeLen)] :
                        PrefixFree(c) } }]

\* ------------------------------------------------------------- the claims about build
\* C3: a table with exactly one symbol builds a single leaf whose symbol gets a
\* nonempty code.
C3_SingleSymbolCodeNonempty ==
    (pc = "built" /\ Cardinality(DOMAIN freqs) = 1) =>
        /\ IsLeaf(root)
        /\ \A s \in DOMAIN freqs : s \in DOMAIN codes /\ Len(codes[s]) >= 1

\* C5: build is deterministic: two builds of the same table give the same tree
\* and the same codebook.
C5_BuildDeterministic ==
    (pc = "built" /\ prevRoot # NoNode) => (root = prevRoot /\ codes = prevCodes)

\* C6: the codebook has exactly one entry per symbol of the table, the leaves of
\* the tree are the symbols of the table, one leaf each, and no code is a prefix
\* of another symbol's code.
C6_CodebookKeysAndPrefixFree ==
    pc = "built" =>
        /\ DOMAIN codes = DOMAIN freqs
        /\ Leaves(root) = DOMAIN freqs
        /\ LeafCount(root) = Cardinality(DOMAIN freqs)
        /\ PrefixFree(codes)

C6_Witness ==
    /\ pc = "built"
    /\ Cardinality(DOMAIN freqs) = 3
    /\ freqs[FirstSym] = freqs[FirstSym + 1]
    /\ ~IsLeaf(root)

\* C7: for tables of 2 to 4 symbols the total weighted code length of the built
\* codebook is at most that of every prefix-free code assignment.
C7_BuildOptimal ==
    (pc = "built" /\ Cardinality(DOMAIN freqs) \in 2 .. 4) =>
        \A len \in PrefixFreeLengths[Cardinality(DOMAIN freqs)] :
            Cost(codes, freqs) <= SumOver(DOMAIN freqs, freqs, len)

C7_Witness ==
    /\ pc = "built"
    /\ Cardinality(DOMAIN freqs) = 4
    /\ \E a \in DOMAIN freqs : \E b \in DOMAIN freqs : a # b /\ freqs[a] = freqs[b]
    /\ \E a \in DOMAIN freqs : \E b \in DOMAIN freqs : Len(codes[a]) < Len(codes[b])

\* Tables of 2 to 4 symbols.
OptTables ==
    UNION { [FirstSym .. (FirstSym + n - 1) -> 0 .. MaxFreq] : n \in 2 .. 4 }

InitOpt ==
    /\ freqs \in OptTables
    /\ pc = "push"
    /\ Fresh

NextOpt ==
    \/ BuildPush
    \/ BuildMerge
    \/ BuildFinish

SpecOpt == InitOpt /\ [][NextOpt]_vars

\* ------------------------------------------------------------- encode, decode
\* encode is called on a built tree.
EncodeCall(d) ==
    /\ pc = "built"
    /\ data' = d
    /\ encoded' = encode(codes, d)
    /\ pc' = "encoded"
    /\ UNCHANGED << freqs, buildVars, prevVars, decodeVars, mainVars >>

\* decode is entered with the bits b: the state before the first iteration.
DecodeEnter(b) ==
    /\ bits' = b
    /\ i' = DecodeEntry(root).i
    /\ current' = DecodeEntry(root).current
    /\ result' = DecodeEntry(root).result
    /\ pc' = "decoding"

\* decode is called on what encode returned.
DecodeEncoded ==
    /\ pc = "encoded"
    /\ DecodeEnter(encoded)
    /\ UNCHANGED << freqs, buildVars, prevVars, encodeVars, mainVars >>

\* decode is called on any bit sequence.
DecodeCall(b) ==
    /\ pc = "built"
    /\ DecodeEnter(b)
    /\ UNCHANGED << freqs, buildVars, prevVars, encodeVars, mainVars >>

\* One iteration of the loop of decode.
DecodeStep ==
    /\ pc = "decoding"
    /\ LET st == DecodeIter(root, bits,
                     [i |-> i, current |-> current, result |-> result, done |-> FALSE])
       IN  /\ i' = st.i
           /\ current' = st.current
           /\ result' = st.result
           /\ pc' = IF st.done THEN "decoded" ELSE "decoding"
    /\ UNCHANGED << freqs, buildVars, prevVars, encodeVars, bits, mainVars >>

\* encode is called on what decode returned.
Reencode ==
    /\ pc = "decoded"
    /\ data' = result
    /\ encoded' = encode(codes, result)
    /\ pc' = "reencoded"
    /\ UNCHANGED << freqs, buildVars, prevVars, decodeVars, mainVars >>

Init ==
    /\ freqs \in SmallTables
    /\ pc = "push"
    /\ Fresh

Next ==
    \/ BuildPush
    \/ BuildMerge
    \/ BuildFinish
    \/ \E d \in SeqsUpTo(Alphabet, MaxData) : EncodeCall(d)
    \/ DecodeEncoded
    \/ DecodeStep

Spec == Init /\ [][Next]_vars

NextDecode ==
    \/ BuildPush
    \/ BuildMerge
    \/ BuildFinish
    \/ \E b \in SeqsUpTo(BOOLEAN, MaxBits) : DecodeCall(b)
    \/ DecodeStep
    \/ Reencode

InitDecode ==
    /\ freqs \in OccurringTables
    /\ pc = "push"
    /\ Fresh

\* The program is sequential and runs every call to its end.
SpecDecode == InitDecode /\ [][NextDecode]_vars /\ WF_vars(NextDecode)

\* ------------------------------------------------------------- the claims about encode and decode
\* C1: decode(tree, encode(codebook, x)) = x for every x over the table's symbols.
C1_DecodeInvertsEncode ==
    (pc = "decoded" /\ \A k \in 1 .. Len(data) : data[k] \in DOMAIN freqs) =>
        result = data

RECURSIVE CodeLenSum(_, _)
\* The sum of the lengths of the codes of the symbols of d.
CodeLenSum(cb, d) ==
    IF d = <<>> THEN 0 ELSE Len(cb[Head(d)]) + CodeLenSum(cb, Tail(d))

\* C4: encode returns bits only when every symbol of data is in the codebook
\* (otherwise it fails with UnknownSymbol and returns nothing), and the bits it
\* returns are as many as the code lengths of the symbols add up to.
C4_EncodeRejectsUnknown ==
    pc = "encoded" =>
        /\ \A k \in 1 .. Len(data) : data[k] \in DOMAIN codes
        /\ Len(encoded) = CodeLenSum(codes, data)

Zeros(k) == [j \in 1 .. k |-> FALSE]

\* C10: on a tree of at least two symbols, encode(decode(B)) is B followed by k
\* zero bits, 1 <= k <= height; decode(B) is not empty and its last symbol, and
\* no other, is emitted once the bit index has reached the length of B.
C10_ReencodePadsWithZeros ==
    (pc = "reencoded" /\ Cardinality(DOMAIN freqs) >= 2) =>
        /\ \E k \in 1 .. Height(root) : encoded = bits \o Zeros(k)
        /\ Len(result) >= 1
        /\ i >= Len(bits)
        /\ Len(encoded) = i + 1
        /\ Len(encode(codes, SubSeq(result, 1, Len(result) - 1))) <= Len(bits)

C10_Witness ==
    /\ pc = "reencoded"
    /\ Cardinality(DOMAIN freqs) >= 3
    /\ Len(bits) = MaxBits
    /\ Len(encoded) >= Len(bits) + 2
    /\ \E k \in 1 .. Len(bits) : bits[k]

\* C8: decode is total: its loop ends for every tree and every bit sequence;
\* once the bit index has reached the length of the bits, the first symbol
\* emitted ends the loop, and the loop ends nowhere else.
C8_DecodeTotal ==
    /\ (pc = "decoding") ~> (pc = "decoded")
    /\ [][(pc = "decoding" /\ i >= Len(bits) /\ result' # result) => pc' = "decoded"]_vars
    /\ [](pc = "decoded" => (i >= Len(bits) /\ Len(result) >= 1))

C8_Witness ==
    /\ pc = "decoded"
    /\ bits # <<>>
    /\ i > Len(bits)

\* ------------------------------------------------------------- main
\* The table of main: the letters e, t, a, o, ... z by their ASCII codes.
MainFreqs ==
    (101 :> 1270) @@ (116 :> 910) @@ (97 :> 820) @@ (111 :> 750)
    @@ (105 :> 700) @@ (110 :> 670) @@ (115 :> 630) @@ (104 :> 610)
    @@ (114 :> 600) @@ (100 :> 430) @@ (108 :> 400) @@ (99 :> 280)
    @@ (117 :> 280) @@ (109 :> 240) @@ (119 :> 240) @@ (102 :> 220)
    @@ (103 :> 200) @@ (121 :> 200) @@ (112 :> 190) @@ (98 :> 150)
    @@ (118 :> 98) @@ (107 :> 77) @@ (106 :> 15) @@ (120 :> 15)
    @@ (113 :> 9) @@ (122 :> 7)

\* A table whose tree is a chain to the left, 8 internal nodes deep: the weights
\* are 1, 2, 4, ... and every merge has a single candidate.
ChainFreqs == [s \in FirstSym .. (FirstSym + 8) |-> Pow2(s - FirstSym)]

\* main from bytes_to_bits(&ciphertext) on, for the ciphertext c: decode, encode,
\* truncate, bits_to_bytes, and the decryption of ciphertext2, which
\* authenticates it: unwrap panics unless it is the ciphertext.
MainRun(c) ==
    /\ pc = "built"
    /\ \E st \in { DecodeLoop(root, bytes_to_bits(c), DecodeEntry(root)) } :
         \E trunc \in { Truncate8(encode(codes, st.result)) } :
           \E packed \in { bits_to_bytes(trunc) } :
              /\ ciphertext' = c
              /\ bits' = bytes_to_bits(c)
              /\ i' = st.i
              /\ current' = st.current
              /\ result' = st.result
              /\ data' = st.result
              /\ encoded' = trunc
              /\ ciphertext2' = packed
              /\ pc' = IF packed = c THEN "main_done" ELSE "main_panic"
    /\ UNCHANGED << freqs, buildVars, prevVars >>

\* The tables main is run on: its own, the chain, and the small tables of at
\* least two symbols that all occur.
MainTables ==
    {MainFreqs, ChainFreqs}
        \cup { t \in OccurringTables : Cardinality(DOMAIN t) >= 2 }

InitMain ==
    /\ freqs \in MainTables
    /\ pc = "push"
    /\ Fresh

NextMain ==
    \/ BuildPush
    \/ BuildMerge
    \/ BuildFinish
    \/ \E c \in MainBuffers : MainRun(c)

SpecMain == InitMain /\ [][NextMain]_vars

\* The longest run of left edges that ends in a leaf, from n and from any node below n.
RECURSIVE LeftRun(_)
LeftRun(n) == IF IsLeaf(n) THEN 0 ELSE 1 + LeftRun(n.left)

RECURSIVE MaxLeftRun(_)
MaxLeftRun(n) ==
    IF IsLeaf(n) THEN 0
    ELSE LET a == LeftRun(n)
             b == MaxLeftRun(n.left)
             c == MaxLeftRun(n.right)
         IN  IF a >= b /\ a >= c THEN a ELSE IF b >= c THEN b ELSE c

\* C2 as stated: for every tree of at least two symbols and every byte buffer,
\* the buffer that comes back from decode, encode, truncate and pack is the
\* buffer that went in.
C2_RoundTripEveryTree ==
    (pc \in {"main_done", "main_panic"} /\ Cardinality(DOMAIN freqs) >= 2) =>
        ciphertext2 = ciphertext

\* C2 amended: the same for every tree of at least two symbols in which no run
\* of left edges ending in a leaf is 8 edges or longer, as in every tree of the
\* table of main.
C2_RoundTripShortLeftRuns ==
    /\ (pc \in {"main_done", "main_panic"} /\ Cardinality(DOMAIN freqs) >= 2
            /\ MaxLeftRun(root) < 8) =>
          (ciphertext2 = ciphertext /\ pc = "main_done")
    /\ (pc = "built" /\ freqs = MainFreqs) => MaxLeftRun(root) < 8

C2_Witness ==
    /\ pc = "main_done"
    /\ freqs = MainFreqs
    /\ Len(ciphertext) = MaxBuf
    /\ Len(result) >= 3
    /\ Len(encode(codes, result)) > Len(bits)

\* ------------------------------------------------------------- bit packing alone
BytesToBitsCall ==
    /\ pc = "bytes"
    /\ bits' = bytes_to_bits(ciphertext)
    /\ pc' = "bits"
    /\ UNCHANGED << freqs, buildVars, prevVars, encodeVars, i, current, result, mainVars >>

\* bits_to_bytes: its assertion, then the packing.
BitsToBytesCall ==
    /\ pc = "bits"
    /\ IF Len(bits) % 8 = 0
       THEN /\ ciphertext2' = bits_to_bytes(bits)
            /\ pc' = "packed"
       ELSE /\ ciphertext2' = ciphertext2
            /\ pc' = "panic"
    /\ UNCHANGED << freqs, buildVars, prevVars, encodeVars, decodeVars, ciphertext >>

InitBits ==
    /\ freqs = <<>>
    /\ pc = "bytes"
    /\ heap = {}
    /\ root = NoNode
    /\ codes = <<>>
    /\ prevRoot = NoNode
    /\ prevCodes = <<>>
    /\ data = <<>>
    /\ encoded = <<>>
    /\ bits = <<>>
    /\ i = 0
    /\ current = NoNode
    /\ result = <<>>
    /\ ciphertext \in SeqsUpTo(Byte, MaxBytes)
    /\ ciphertext2 = <<>>

NextBits ==
    \/ BytesToBitsCall
    \/ BitsToBytesCall

SpecBits == InitBits /\ [][NextBits]_vars

\* C9: bits_to_bytes(bytes_to_bits(b)) = b for every byte buffer b; bytes_to_bits
\* gives 8 bits per byte, the most significant first.
C9_BitPackingRoundTrip ==
    /\ pc = "packed" => ciphertext2 = ciphertext
    /\ pc \in {"bits", "packed"} =>
          /\ Len(bits) = 8 * Len(ciphertext)
          /\ \A j \in 1 .. Len(ciphertext) :
                /\ bits[8 * (j - 1) + 1] = (ciphertext[j] >= 128)
                /\ bits[8 * j] = (ciphertext[j] % 2 = 1)
    /\ pc # "panic"

C9_Witness ==
    /\ pc = "packed"
    /\ Len(ciphertext) = MaxBytes
    /\ ciphertext[1] = 130
    /\ ciphertext2 = ciphertext

====
